---- MODULE Spec2Model ----
(***************************************************************************)
(* PathFinder: the weighted road graph (Graph.ts), the ordered-insertion   *)
(* priority queue (PriorityQueue.ts) and the five searches (dijkstra.ts,   *)
(* aStar.ts, gbfs, bfs.ts, dfs) as a state machine.                        *)
(*                                                                         *)
(* A graph is built once from a GraphJSON value; afterwards a caller       *)
(* starts a search, which runs one loop iteration per step, then walks     *)
(* prev backwards one element per step, and returns.                       *)
(*                                                                         *)
(* Beside Spec, the searches of one caller on the graphs of three nodes    *)
(* and on the square, there are: SpecTwice (a returned call is made        *)
(* again), SpecQueue (a PriorityQueue used directly), SpecBuild            *)
(* (buildFromJSON with its input kept), SpecShared (the steps of two       *)
(* searches on the square interleaved), SpecDistance (the searches, then   *)
(* App.calculatePathDistance), SpecAStar (aStar on the graphs of four      *)
(* nodes), SpecFair (the searches on graphs with edges of any kind, a      *)
(* running call never suspended), SpecApp (the App's handlers on the       *)
(* square) and SpecVisualizer (a Visualizer used directly, with the ticks  *)
(* of its intervals).                                                      *)
(*                                                                         *)
(* Numbers.  Coordinates are whole degrees.  Edge weights and distances    *)
(* are whole numbers of 1/ArcUnits of a degree of great-circle arc, so     *)
(* that the haversine distance of two points of the model is a whole       *)
(* number.  JavaScript's null, undefined/NaN and Infinity are the          *)
(* integers Null, Undefined and Infinity, which are no node id and no      *)
(* distance of the model.                                                  *)
(***************************************************************************)
EXTENDS Integers, Sequences, FiniteSets, TLC

VARIABLES
    nodes,   \* Graph.nodes: Map id -> GraphNode
    adj,     \* Graph.adj:   Map id -> GraphEdge[]
    built,   \* buildFromJSON has run
    input,   \* the GraphJSON value it was given, where that is kept
    s,       \* the locals of the search in progress (or of the last one)
    first,   \* what the first call returned, once the same call is made again
    items,   \* PriorityQueue.items of a queue a caller uses directly
    calls,   \* the number of enqueue calls on that queue so far
    was,     \* its items before the last call, when that was a dequeue
    out,     \* what the last call returned, when that was a dequeue
    t,       \* the locals of a second search on the same graph
    totalDistance,  \* what App.calculatePathDistance returned for the path of s
    app,     \* the App: its selection, speed and caches, and its Visualizer
    vis      \* a Visualizer used directly, its layers and the window's intervals

searchVars == <<nodes, adj, built, input, s, first>>

queueVars == <<items, calls, was, out>>

vars == <<searchVars, queueVars, t, totalDistance, app, vis>>

----------------------------------------------------------------------------
(* Bounds of the model *)

MaxEdges == 3      \* longest edge list of a well-formed input
MaxWeight == 2     \* largest edge weight, in degrees of arc
MaxLat == 1        \* largest latitude, in degrees
MaxOtherEdges == 2 \* longest edge list of an input with edges of any kind
MaxPath == 5       \* longest array the backward walk may build
MaxCalls == 4      \* most enqueue calls on the queue a caller uses directly
MaxPriority == 2   \* largest finite priority of those calls
MaxTime == 1       \* longest time a search takes, in milliseconds
MaxIntervals == 4  \* most setInterval calls of a Visualizer used directly

(* JavaScript values that are not numbers of the model *)
Null == -1000
Undefined == -2000
Infinity == 1000000

(* haversine.ts is not part of the sources: distances are in units of      *)
(* 1/ArcUnits of a degree of arc.                                          *)
ArcUnits == 100

NodeIds == {-1, 1, 2}
AbsentIds == {9}
Lats == 0..MaxLat
Weights == {w * ArcUnits : w \in 0..MaxWeight}

----------------------------------------------------------------------------
(* Small helpers *)

Abs(x) == IF x < 0 THEN -x ELSE x

\* obj[key] of a JavaScript object or Map.get(key): undefined when absent
Get(f, k) == IF k \in DOMAIN f THEN f[k] ELSE Undefined

\* a < b on JavaScript numbers: false when either side is undefined/NaN
Lt(a, b) == a # Undefined /\ b # Undefined /\ a < b

\* a + b on JavaScript numbers
Plus(a, b) ==
    IF a = Undefined \/ b = Undefined THEN Undefined
    ELSE IF a = Infinity \/ b = Infinity THEN Infinity
    ELSE a + b

Min(S) == CHOOSE x \in S : \A y \in S : x <= y

Reverse(q) == [i \in 1..Len(q) |-> q[Len(q) + 1 - i]]

SeqsUpTo(S, n) == UNION {[1..k -> S] : k \in 0..n}

\* the integer nearest to the square root of n
RoundSqrt(n) == CHOOSE k \in 0..n : (2*k - 1) * (2*k - 1) <= 4*n /\ 4*n < (2*k + 1) * (2*k + 1)

\* great-circle distance of two points given in whole degrees near the
\* equator, in units of 1/ArcUnits of a degree of arc
haversineDistance(lat1, lon1, lat2, lon2) ==
    IF lon1 = lon2 THEN ArcUnits * Abs(lat1 - lat2)
    ELSE RoundSqrt(ArcUnits * ArcUnits
                   * ((lat1 - lat2) * (lat1 - lat2) + (lon1 - lon2) * (lon1 - lon2)))

----------------------------------------------------------------------------
(* Graph *)

ReverseEdge(edge) == [source |-> edge.target, target |-> edge.source, weight |-> edge.weight]

\* a faulty variant, kept for comparison: the mirror entry is put at the front of the target's list
AddEdgeMirrorFirst(a, edge) ==
    LET a1 == IF edge.source \in DOMAIN a
              THEN [a EXCEPT ![edge.source] = Append(@, edge)]
              ELSE a
    IN  IF edge.target \in DOMAIN a1
        THEN [a1 EXCEPT ![edge.target] = <<ReverseEdge(edge)>> \o @]
        ELSE a1

\* one iteration of the edge loop of buildFromJSON: adj.get(x)?.push(..)
AddEdge(a, edge) ==
    LET a1 == IF edge.source \in DOMAIN a
              THEN [a EXCEPT ![edge.source] = Append(@, edge)]
              ELSE a
    IN  IF edge.target \in DOMAIN a1
        THEN [a1 EXCEPT ![edge.target] = Append(@, ReverseEdge(edge))]
        ELSE a1

RECURSIVE AddEdges(_, _, _)
AddEdges(a, edges, i) ==
    IF i > Len(edges) THEN a
    ELSE AddEdges(AddEdge(a, edges[i]), edges, i + 1)

BuiltNodes(data) == data.nodes

BuiltAdj(data) == AddEdges([id \in DOMAIN data.nodes |-> <<>>], data.edges, 1)

getNode(id) == Get(nodes, id)

\* getNode(id) is a node, not undefined
hasNode(id) == id \in DOMAIN nodes

getNeighbors(id) == IF id \in DOMAIN adj THEN adj[id] ELSE <<>>

\* a faulty variant, kept for comparison: always the straight-line distance
getEdgeWeightStraight(nodeA, nodeB) ==
    haversineDistance(nodeA.lat, nodeA.lon, nodeB.lat, nodeB.lon)

\* Array.find: the first edge of nodeA's list whose target is nodeB
getEdgeWeight(nodeA, nodeB) ==
    LET list == getNeighbors(nodeA.id)
        hits == {i \in 1..Len(list) : list[i].target = nodeB.id}
    IN  IF nodeA.id \in DOMAIN adj /\ hits # {}
        THEN list[CHOOSE i \in hits : \A j \in hits : i <= j].weight
        ELSE haversineDistance(nodeA.lat, nodeA.lon, nodeB.lat, nodeB.lon)

----------------------------------------------------------------------------
(* PriorityQueue *)

\* a faulty variant, kept for comparison: the new entry always goes to the back
enqueueAtBack(its, element, priority) ==
    Append(its, [element |-> element, priority |-> priority])

enqueue(its, element, priority) ==
    LET pqElement == [element |-> element, priority |-> priority]
        before == {i \in 1..Len(its) : priority < its[i].priority}
    IN  IF before = {} THEN Append(its, pqElement)
        ELSE LET i == CHOOSE k \in before : \A j \in before : k <= j
             IN  SubSeq(its, 1, i - 1) \o <<pqElement>> \o SubSeq(its, i, Len(its))

\* a faulty variant, kept for comparison: the entry at the back is returned
dequeueFromBack(its) == IF its = <<>> THEN Undefined ELSE its[Len(its)]

\* the entry shift() returns; undefined on an empty queue
dequeue(its) == IF its = <<>> THEN Undefined ELSE Head(its)

\* the items shift() leaves
dequeued(its) == IF its = <<>> THEN <<>> ELSE Tail(its)

isEmpty(its) == Len(its) = 0

----------------------------------------------------------------------------
(* The locals of a search call *)

\* obj[key] = value on a JavaScript object
Put(f, k, v) == [x \in (DOMAIN f) \cup {k} |-> IF x = k THEN v ELSE f[x]]

Last(q) == q[Len(q)]

Idle ==
    [algo |-> "none", pc |-> "idle", startNode |-> Null, endNode |-> Null,
     distances |-> <<>>, gScore |-> <<>>, fScore |-> <<>>, prev |-> <<>>,
     pq |-> <<>>, queue |-> <<>>, stack |-> <<>>, visited |-> {},
     visitedInOrder |-> <<>>, found |-> FALSE, path |-> <<>>, current |-> Null]

\* the search loop is left: let current = endNode before the backward walk
ToWalk(r) == [r EXCEPT !.pc = "walk", !.current = r.endNode, !.path = <<>>]

\* return { path, visitedInOrder, prev }
Return(r, path) == [r EXCEPT !.pc = "done", !.path = path]

\* reading a property of undefined: the call ends with a TypeError
Throw(r) == [r EXCEPT !.pc = "error"]

----------------------------------------------------------------------------
(* dijkstra *)

\* a faulty variant, kept for comparison: the queue outlives the call: a new call finds what the last left
dijkstraInitOnOldQueue(startNode, endNode) ==
    LET distances == [id \in DOMAIN nodes |-> Infinity]
        prev == [id \in DOMAIN nodes |-> Null]
    IN  [Idle EXCEPT !.algo = "dijkstra", !.pc = "loop",
                     !.startNode = startNode, !.endNode = endNode,
                     !.distances = Put(distances, startNode, 0),
                     !.prev = prev,
                     !.pq = enqueue(s.pq, startNode, 0)]

\* a faulty variant, kept for comparison: every node is put in the queue at the start, with its distance
RECURSIVE enqueueAll(_, _, _)
enqueueAll(its, ids, distances) ==
    IF ids = {} THEN its
    ELSE LET id == Min(ids)
         IN  enqueueAll(enqueue(its, id, distances[id]), ids \ {id}, distances)

dijkstraInitAllQueued(startNode, endNode) ==
    LET distances == Put([id \in DOMAIN nodes |-> Infinity], startNode, 0)
        prev == [id \in DOMAIN nodes |-> Null]
    IN  [Idle EXCEPT !.algo = "dijkstra", !.pc = "loop",
                     !.startNode = startNode, !.endNode = endNode,
                     !.distances = distances,
                     !.prev = prev,
                     !.pq = enqueueAll(<<>>, DOMAIN distances, distances)]

dijkstraInit(startNode, endNode) ==
    LET distances == [id \in DOMAIN nodes |-> Infinity]
        prev == [id \in DOMAIN nodes |-> Null]
    IN  [Idle EXCEPT !.algo = "dijkstra", !.pc = "loop",
                     !.startNode = startNode, !.endNode = endNode,
                     !.distances = Put(distances, startNode, 0),
                     !.prev = prev,
                     !.pq = enqueue(<<>>, startNode, 0)]

\* a faulty variant, kept for comparison: every edge counts 1, whatever its weight
RECURSIVE dijkstraRelaxUnweighted(_, _, _, _)
dijkstraRelaxUnweighted(r, currentNode, neighbors, i) ==
    IF i > Len(neighbors) THEN r
    ELSE LET target == neighbors[i].target
             newDist == Plus(Get(r.distances, currentNode), 1)
         IN  IF Lt(newDist, Get(r.distances, target))
             THEN dijkstraRelaxUnweighted(
                      [r EXCEPT !.distances = Put(r.distances, target, newDist),
                                !.prev = Put(r.prev, target, currentNode),
                                !.pq = enqueue(r.pq, target, newDist)],
                      currentNode, neighbors, i + 1)
             ELSE dijkstraRelaxUnweighted(r, currentNode, neighbors, i + 1)

\* a faulty variant, kept for comparison: an equal distance relaxes too
RECURSIVE dijkstraRelaxOnEqual(_, _, _, _)
dijkstraRelaxOnEqual(r, currentNode, neighbors, i) ==
    IF i > Len(neighbors) THEN r
    ELSE LET target == neighbors[i].target
             weight == neighbors[i].weight
             newDist == Plus(Get(r.distances, currentNode), weight)
         IN  IF Lt(newDist, Plus(Get(r.distances, target), 1))
             THEN dijkstraRelaxOnEqual(
                      [r EXCEPT !.distances = Put(r.distances, target, newDist),
                                !.prev = Put(r.prev, target, currentNode),
                                !.pq = enqueue(r.pq, target, newDist)],
                      currentNode, neighbors, i + 1)
             ELSE dijkstraRelaxOnEqual(r, currentNode, neighbors, i + 1)

\* the loop over the neighbours of currentNode, from edge i on
RECURSIVE dijkstraRelax(_, _, _, _)
dijkstraRelax(r, currentNode, neighbors, i) ==
    IF i > Len(neighbors) THEN r
    ELSE LET target == neighbors[i].target
             weight == neighbors[i].weight
             newDist == Plus(Get(r.distances, currentNode), weight)
         IN  IF Lt(newDist, Get(r.distances, target))
             THEN dijkstraRelax([r EXCEPT !.distances = Put(r.distances, target, newDist),
                                          !.prev = Put(r.prev, target, currentNode),
                                          !.pq = enqueue(r.pq, target, newDist)],
                                currentNode, neighbors, i + 1)
             ELSE dijkstraRelax(r, currentNode, neighbors, i + 1)

\* a faulty variant, kept for comparison: the loop goes on until the queue is empty
dijkstraLoopDraining(r) ==
    LET currentNode == dequeue(r.pq).element
        r1 == [r EXCEPT !.pq = dequeued(r.pq),
                        !.visitedInOrder = Append(r.visitedInOrder, currentNode)]
        r2 == dijkstraRelax(r1, currentNode, getNeighbors(currentNode), 1)
    IN  IF isEmpty(r2.pq) THEN ToWalk(r2) ELSE r2

\* one iteration of while (!pq.isEmpty()), and the test that follows it
dijkstraLoop(r) ==
    LET currentNode == dequeue(r.pq).element
        r1 == [r EXCEPT !.pq = dequeued(r.pq),
                        !.visitedInOrder = Append(r.visitedInOrder, currentNode)]
    IN  IF currentNode = r.endNode THEN ToWalk(r1)
        ELSE LET r2 == dijkstraRelax(r1, currentNode, getNeighbors(currentNode), 1)
             IN  IF isEmpty(r2.pq) THEN ToWalk(r2) ELSE r2

\* a faulty variant, kept for comparison: the walked path is returned without the test of its last element
dijkstraWalkUnchecked(r) ==
    LET path == Append(r.path, r.current)
        current == Get(r.prev, r.current)
        r1 == [r EXCEPT !.path = path, !.current = current]
    IN  IF current # Null THEN r1 ELSE Return(r1, Reverse(path))

\* one iteration of while (current !== null); after the last one, the
\* test of the path's last element and the return
dijkstraWalk(r) ==
    LET path == Append(r.path, r.current)
        current == Get(r.prev, r.current)
        r1 == [r EXCEPT !.path = path, !.current = current]
    IN  IF current # Null THEN r1
        ELSE IF Last(path) # r.startNode THEN Return(r1, <<>>)
        ELSE Return(r1, Reverse(path))

\* the record a call of dijkstra returns with: its steps, taken to the end
RECURSIVE dijkstraRun(_)
dijkstraRun(r) ==
    IF r.pc = "loop" THEN dijkstraRun(dijkstraLoop(r))
    ELSE IF r.pc = "walk" THEN dijkstraRun(dijkstraWalk(r))
    ELSE r

dijkstraResult(startNode, endNode) == dijkstraRun(dijkstraInit(startNode, endNode))

----------------------------------------------------------------------------
(* aStar *)

\* haversineDistance of node id to endNodeData
hScoreOf(id, endNodeData) ==
    haversineDistance(getNode(id).lat, getNode(id).lon, endNodeData.lat, endNodeData.lon)

aStarInit(startNode, endNode) ==
    LET r0 == [Idle EXCEPT !.algo = "aStar", !.startNode = startNode, !.endNode = endNode]
        endNodeData == getNode(endNode)
        gScore == [id \in DOMAIN nodes |-> Infinity]
        fScore == [id \in DOMAIN nodes |-> Infinity]
        prev == [id \in DOMAIN nodes |-> Null]
    IN  IF ~hasNode(endNode) THEN Return(r0, <<>>)
        ELSE IF ~hasNode(startNode)
        THEN Throw([r0 EXCEPT !.gScore = Put(gScore, startNode, 0),
                              !.fScore = fScore, !.prev = prev])
        ELSE LET hScore == hScoreOf(startNode, endNodeData)
             IN  [r0 EXCEPT !.pc = "loop",
                            !.gScore = Put(gScore, startNode, 0),
                            !.fScore = Put(fScore, startNode, hScore),
                            !.prev = prev,
                            !.pq = enqueue(<<>>, startNode, hScore)]

\* a faulty variant, kept for comparison: the queue priority is the heuristic alone
RECURSIVE aStarRelaxByHeuristic(_, _, _, _)
aStarRelaxByHeuristic(r, currentNodeId, neighbors, i) ==
    IF i > Len(neighbors) THEN r
    ELSE LET neighborId == neighbors[i].target
             weight == neighbors[i].weight
             tentativeGScore == Plus(Get(r.gScore, currentNodeId), weight)
         IN  IF Lt(tentativeGScore, Get(r.gScore, neighborId))
             THEN LET h == hScoreOf(neighborId, getNode(r.endNode))
                  IN  aStarRelaxByHeuristic(
                          [r EXCEPT !.prev = Put(r.prev, neighborId, currentNodeId),
                                    !.gScore = Put(r.gScore, neighborId, tentativeGScore),
                                    !.fScore = Put(r.fScore, neighborId, h),
                                    !.pq = enqueue(r.pq, neighborId, h)],
                          currentNodeId, neighbors, i + 1)
             ELSE aStarRelaxByHeuristic(r, currentNodeId, neighbors, i + 1)

\* a faulty variant, kept for comparison: a node that was dequeued before is not relaxed again
RECURSIVE aStarRelaxClosed(_, _, _, _)
aStarRelaxClosed(r, currentNodeId, neighbors, i) ==
    IF i > Len(neighbors) THEN r
    ELSE LET neighborId == neighbors[i].target
             weight == neighbors[i].weight
             tentativeGScore == Plus(Get(r.gScore, currentNodeId), weight)
             seen == \E k \in 1..Len(r.visitedInOrder) : r.visitedInOrder[k] = neighborId
         IN  IF ~seen /\ Lt(tentativeGScore, Get(r.gScore, neighborId))
             THEN LET f == tentativeGScore + hScoreOf(neighborId, getNode(r.endNode))
                  IN  aStarRelaxClosed(
                          [r EXCEPT !.prev = Put(r.prev, neighborId, currentNodeId),
                                    !.gScore = Put(r.gScore, neighborId, tentativeGScore),
                                    !.fScore = Put(r.fScore, neighborId, f),
                                    !.pq = enqueue(r.pq, neighborId, f)],
                          currentNodeId, neighbors, i + 1)
             ELSE aStarRelaxClosed(r, currentNodeId, neighbors, i + 1)

RECURSIVE aStarRelax(_, _, _, _)
aStarRelax(r, currentNodeId, neighbors, i) ==
    IF i > Len(neighbors) THEN r
    ELSE LET neighborId == neighbors[i].target
             weight == neighbors[i].weight
             tentativeGScore == Plus(Get(r.gScore, currentNodeId), weight)
         IN  IF Lt(tentativeGScore, Get(r.gScore, neighborId))
             THEN LET f == tentativeGScore + hScoreOf(neighborId, getNode(r.endNode))
                  IN  aStarRelax([r EXCEPT !.prev = Put(r.prev, neighborId, currentNodeId),
                                           !.gScore = Put(r.gScore, neighborId, tentativeGScore),
                                           !.fScore = Put(r.fScore, neighborId, f),
                                           !.pq = enqueue(r.pq, neighborId, f)],
                                 currentNodeId, neighbors, i + 1)
             ELSE aStarRelax(r, currentNodeId, neighbors, i + 1)

aStarLoop(r) ==
    LET currentNodeId == dequeue(r.pq).element
        r1 == [r EXCEPT !.pq = dequeued(r.pq),
                        !.visitedInOrder = Append(r.visitedInOrder, currentNodeId)]
    IN  IF currentNodeId = r.endNode THEN ToWalk(r1)
        ELSE LET r2 == aStarRelax(r1, currentNodeId, getNeighbors(currentNodeId), 1)
             IN  IF isEmpty(r2.pq) THEN ToWalk(r2) ELSE r2

aStarWalk(r) ==
    LET path == Append(r.path, r.current)
        current == Get(r.prev, r.current)
        r1 == [r EXCEPT !.path = path, !.current = current]
    IN  IF current # Null THEN r1
        ELSE IF Last(path) # r.startNode THEN Return(r1, <<>>)
        ELSE Return(r1, Reverse(path))

----------------------------------------------------------------------------
(* greedyBestFirstSearch *)

greedyBestFirstSearchInit(startNode, endNode) ==
    LET r0 == [Idle EXCEPT !.algo = "gbfs", !.startNode = startNode, !.endNode = endNode]
        endNodeData == getNode(endNode)
        prev == [id \in DOMAIN nodes |-> Null]
    IN  IF ~hasNode(endNode) THEN Return(r0, <<>>)
        ELSE IF ~hasNode(startNode) THEN Throw([r0 EXCEPT !.prev = prev])
        ELSE [r0 EXCEPT !.pc = "loop",
                        !.pq = enqueue(<<>>, startNode, hScoreOf(startNode, endNodeData)),
                        !.prev = Put(prev, startNode, startNode)]

\* a faulty variant, kept for comparison: a neighbour counts as unvisited until it has been dequeued
RECURSIVE greedyBestFirstSearchExpandUnmarked(_, _, _, _)
greedyBestFirstSearchExpandUnmarked(r, currentNodeId, neighbors, i) ==
    IF i > Len(neighbors) THEN r
    ELSE LET neighborId == neighbors[i].target
             seen == \E k \in 1..Len(r.visitedInOrder) : r.visitedInOrder[k] = neighborId
         IN  IF ~seen /\ neighborId \in DOMAIN r.prev
             THEN greedyBestFirstSearchExpandUnmarked(
                      [r EXCEPT !.prev = Put(r.prev, neighborId, currentNodeId),
                                !.pq = enqueue(r.pq, neighborId,
                                               hScoreOf(neighborId, getNode(r.endNode)))],
                      currentNodeId, neighbors, i + 1)
             ELSE greedyBestFirstSearchExpandUnmarked(r, currentNodeId, neighbors, i + 1)

RECURSIVE greedyBestFirstSearchExpand(_, _, _, _)
greedyBestFirstSearchExpand(r, currentNodeId, neighbors, i) ==
    IF i > Len(neighbors) THEN r
    ELSE LET neighborId == neighbors[i].target
         IN  IF Get(r.prev, neighborId) = Null
             THEN greedyBestFirstSearchExpand(
                      [r EXCEPT !.prev = Put(r.prev, neighborId, currentNodeId),
                                !.pq = enqueue(r.pq, neighborId,
                                               hScoreOf(neighborId, getNode(r.endNode)))],
                      currentNodeId, neighbors, i + 1)
             ELSE greedyBestFirstSearchExpand(r, currentNodeId, neighbors, i + 1)

greedyBestFirstSearchLoop(r) ==
    LET currentNodeId == dequeue(r.pq).element
        r1 == [r EXCEPT !.pq = dequeued(r.pq),
                        !.visitedInOrder = Append(r.visitedInOrder, currentNodeId)]
    IN  IF currentNodeId = r.endNode THEN ToWalk(r1)
        ELSE LET r2 == greedyBestFirstSearchExpand(r1, currentNodeId,
                                                   getNeighbors(currentNodeId), 1)
             IN  IF isEmpty(r2.pq) THEN ToWalk(r2) ELSE r2

\* a faulty variant, kept for comparison: the walk has no break at startNode and goes on until null
greedyBestFirstSearchWalkToNull(r) ==
    LET path == Append(r.path, r.current)
        current == Get(r.prev, r.current)
        r1 == [r EXCEPT !.path = path, !.current = current]
    IN  IF current # Null THEN r1
        ELSE Return(r1, IF Last(path) = r.startNode THEN Reverse(path) ELSE <<>>)

\* one iteration of while (current !== null) with its break at startNode
greedyBestFirstSearchWalk(r) ==
    LET path == Append(r.path, r.current)
        pathFound == Last(path) = r.startNode
        current == IF r.current = r.startNode THEN r.current ELSE Get(r.prev, r.current)
        r1 == [r EXCEPT !.path = path, !.current = current]
    IN  IF r.current # r.startNode /\ current # Null THEN r1
        ELSE Return(r1, IF pathFound THEN Reverse(path) ELSE <<>>)

----------------------------------------------------------------------------
(* breadthFirstSearch *)

\* the code after the search loop, up to the first test of the walk
breadthFirstSearchAfterLoop(r) ==
    IF r.found THEN ToWalk(r) ELSE Return(r, <<>>)

breadthFirstSearchInit(startNode, endNode) ==
    [Idle EXCEPT !.algo = "bfs", !.pc = "loop",
                 !.startNode = startNode, !.endNode = endNode,
                 !.prev = [id \in DOMAIN nodes |-> Null],
                 !.queue = <<startNode>>,
                 !.visited = {startNode}]

\* a faulty variant, kept for comparison: a node is marked visited when it is expanded, not when it is
\* first seen
RECURSIVE breadthFirstSearchExpandMarkingLate(_, _, _, _)
breadthFirstSearchExpandMarkingLate(r, currentNode, neighbors, i) ==
    IF i > Len(neighbors) THEN r
    ELSE LET neighborId == neighbors[i].target
         IN  IF neighborId \notin r.visited
             THEN breadthFirstSearchExpandMarkingLate(
                      [r EXCEPT !.visited = r.visited \cup {currentNode},
                                !.prev = Put(r.prev, neighborId, currentNode),
                                !.queue = Append(r.queue, neighborId)],
                      currentNode, neighbors, i + 1)
             ELSE breadthFirstSearchExpandMarkingLate(r, currentNode, neighbors, i + 1)

RECURSIVE breadthFirstSearchExpand(_, _, _, _)
breadthFirstSearchExpand(r, currentNode, neighbors, i) ==
    IF i > Len(neighbors) THEN r
    ELSE LET neighborId == neighbors[i].target
         IN  IF neighborId \notin r.visited
             THEN breadthFirstSearchExpand(
                      [r EXCEPT !.visited = r.visited \cup {neighborId},
                                !.prev = Put(r.prev, neighborId, currentNode),
                                !.queue = Append(r.queue, neighborId)],
                      currentNode, neighbors, i + 1)
             ELSE breadthFirstSearchExpand(r, currentNode, neighbors, i + 1)

breadthFirstSearchLoop(r) ==
    LET currentNode == Head(r.queue)
        r1 == [r EXCEPT !.queue = Tail(r.queue),
                        !.visitedInOrder = Append(r.visitedInOrder, currentNode)]
    IN  IF currentNode = r.endNode
        THEN breadthFirstSearchAfterLoop([r1 EXCEPT !.found = TRUE])
        ELSE LET r2 == breadthFirstSearchExpand(r1, currentNode, getNeighbors(currentNode), 1)
             IN  IF Len(r2.queue) > 0 THEN r2 ELSE breadthFirstSearchAfterLoop(r2)

breadthFirstSearchWalk(r) ==
    LET path == Append(r.path, r.current)
        current == Get(r.prev, r.current)
        r1 == [r EXCEPT !.path = path, !.current = current]
    IN  IF current # Null THEN r1 ELSE Return(r1, Reverse(path))

----------------------------------------------------------------------------
(* depthFirstSearch *)

\* the value depthFirstSearch stores in prev[startNode]
StartMarker == -1

\* the test of while (current !== null && current !== -1)
depthFirstSearchWalking(current) == current # Null /\ current # StartMarker

\* the code after the search loop, up to the first test of the walk
depthFirstSearchAfterLoop(r) ==
    IF ~r.found THEN Return(r, <<>>)
    ELSE IF depthFirstSearchWalking(r.endNode) THEN ToWalk(r)
    ELSE Return([r EXCEPT !.current = r.endNode], <<>>)

depthFirstSearchInit(startNode, endNode) ==
    [Idle EXCEPT !.algo = "dfs", !.pc = "loop",
                 !.startNode = startNode, !.endNode = endNode,
                 !.prev = Put([id \in DOMAIN nodes |-> Null], startNode, StartMarker),
                 !.stack = <<startNode>>]

RECURSIVE depthFirstSearchExpand(_, _, _, _)
depthFirstSearchExpand(r, currentNode, neighbors, i) ==
    IF i > Len(neighbors) THEN r
    ELSE LET neighborId == neighbors[i].target
         IN  IF Get(r.prev, neighborId) = Null
             THEN depthFirstSearchExpand(
                      [r EXCEPT !.prev = Put(r.prev, neighborId, currentNode),
                                !.stack = Append(r.stack, neighborId)],
                      currentNode, neighbors, i + 1)
             ELSE depthFirstSearchExpand(r, currentNode, neighbors, i + 1)

\* a faulty variant, kept for comparison: the node pushed first is taken first
depthFirstSearchLoopFromFront(r) ==
    LET currentNode == Head(r.stack)
        r1 == [r EXCEPT !.stack = Tail(r.stack),
                        !.visitedInOrder = Append(r.visitedInOrder, currentNode)]
    IN  IF currentNode = r.endNode
        THEN depthFirstSearchAfterLoop([r1 EXCEPT !.found = TRUE])
        ELSE LET r2 == depthFirstSearchExpand(r1, currentNode, getNeighbors(currentNode), 1)
             IN  IF Len(r2.stack) > 0 THEN r2 ELSE depthFirstSearchAfterLoop(r2)

depthFirstSearchLoop(r) ==
    LET currentNode == Last(r.stack)
        r1 == [r EXCEPT !.stack = SubSeq(r.stack, 1, Len(r.stack) - 1),
                        !.visitedInOrder = Append(r.visitedInOrder, currentNode)]
    IN  IF currentNode = r.endNode
        THEN depthFirstSearchAfterLoop([r1 EXCEPT !.found = TRUE])
        ELSE LET r2 == depthFirstSearchExpand(r1, currentNode, getNeighbors(currentNode), 1)
             IN  IF Len(r2.stack) > 0 THEN r2 ELSE depthFirstSearchAfterLoop(r2)

depthFirstSearchWalk(r) ==
    LET path == Append(r.path, r.current)
        current == Get(r.prev, r.current)
        r1 == [r EXCEPT !.path = path, !.current = current]
    IN  IF depthFirstSearchWalking(current) THEN r1 ELSE Return(r1, Reverse(path))

----------------------------------------------------------------------------
(* Inputs: the GraphJSON values a graph is built from *)

NodeChoices == {[id \in NodeIds |-> [id |-> id, lat |-> f[id], lon |-> 0]] : f \in [NodeIds -> Lats]}

\* edges between two distinct nodes of the node set, in either direction
EdgeChoices ==
    {e \in [source : NodeIds, target : NodeIds, weight : Weights] : e.source # e.target}

WellFormedInputs == [nodes : NodeChoices, edges : SeqsUpTo(EdgeChoices, MaxEdges)]

\* edges of any kind: also from a node to itself, and to or from an id
\* that is not in the node set
AnyEdgeChoices ==
    [source : NodeIds \cup AbsentIds, target : NodeIds \cup AbsentIds, weight : Weights]

OtherInputs ==
    [nodes : {[id \in NodeIds |-> [id |-> id, lat |-> 0, lon |-> 0]]},
     edges : SeqsUpTo(AnyEdgeChoices, MaxOtherEdges)]

\* the square A(0,0) B(0,1) C(1,1) D(1,0) with A-B:1, B-C:1, C-D:1, A-D:5
SquareIds == <<1, 2, 3, 4>>
A == SquareIds[1]
B == SquareIds[2]
C == SquareIds[3]
D == SquareIds[4]

Square ==
    [nodes |-> (A :> [id |-> A, lat |-> 0, lon |-> 0]) @@ (B :> [id |-> B, lat |-> 0, lon |-> 1])
               @@ (C :> [id |-> C, lat |-> 1, lon |-> 1]) @@ (D :> [id |-> D, lat |-> 1, lon |-> 0]),
     edges |-> << [source |-> A, target |-> B, weight |-> 1],
                  [source |-> B, target |-> C, weight |-> 1],
                  [source |-> C, target |-> D, weight |-> 1],
                  [source |-> A, target |-> D, weight |-> 5] >>]

Inputs == WellFormedInputs \cup OtherInputs \cup {Square}

\* the pairs of the four ids A, B, C, D, in a fixed order
Pairs == << <<A, B>>, <<A, C>>, <<B, C>>, <<B, D>>, <<C, D>>, <<A, D>> >>

\* the edge list that holds, for each pair whose choice is a weight, the
\* edge of that pair and weight
RECURSIVE EdgesOf(_, _)
EdgesOf(choice, i) ==
    IF i > Len(Pairs) THEN <<>>
    ELSE (IF choice[i] = Null THEN <<>>
          ELSE <<[source |-> Pairs[i][1], target |-> Pairs[i][2], weight |-> choice[i]]>>)
         \o EdgesOf(choice, i + 1)

\* every graph on four nodes of one meridian: any latitudes, and any of
\* the six pairs joined, with any weight
FourNodeInputs ==
    {[nodes |-> [id \in {A, B, C, D} |-> [id |-> id, lat |-> f[id], lon |-> 0]],
      edges |-> EdgesOf(choice, 1)] :
        f \in [{A, B, C, D} -> Lats], choice \in [1..Len(Pairs) -> Weights \cup {Null}]}

\* the ids a caller may pass: the nodes of the graph, and ids it does not hold
Endpoints == (DOMAIN nodes) \cup AbsentIds

----------------------------------------------------------------------------
(* The App after its constructor: no selection, speed Fast, empty caches;  *)
(* the selector shows its first option; the Visualizer holds no result     *)

algoOrder == <<"astar", "gbfs", "dijkstra", "bfs", "dfs">>

AppNew ==
    [startNode |-> Null, endNode |-> Null, currentSpeed |-> 0,
     selectedAlgo |-> algoOrder[1],
     lastResults |-> <<>>, lastTimes |-> <<>>,
     visualizer |-> [result |-> Null, speed |-> 5]]

\* the Visualizer after its constructor, with empty layers, and no interval
\* of the window live: intervals holds the ids of the live ones, made counts
\* the setInterval calls, whose ids are 1, 2, ...; result is <<>> for null
\* and else holds the one result that is loaded
VisualizerNew ==
    [speed |-> 5, animationTimer |-> Null, result |-> <<>>, animationIndex |-> 0,
     visitedLayer |-> <<>>, pathLayer |-> <<>>,
     intervals |-> {}, made |-> 0]

----------------------------------------------------------------------------
(* The state machine *)

Init ==
    /\ nodes = <<>>
    /\ adj = <<>>
    /\ built = FALSE
    /\ input = [nodes |-> <<>>, edges |-> <<>>]
    /\ s = Idle
    /\ first = <<>>
    /\ items = <<>>
    /\ calls = 0
    /\ was = <<>>
    /\ out = <<>>
    /\ t = Idle
    /\ totalDistance = Null
    /\ app = AppNew
    /\ vis = VisualizerNew

buildFromJSON(data) ==
    /\ nodes' = BuiltNodes(data)
    /\ adj' = BuiltAdj(data)
    /\ built' = TRUE
    /\ UNCHANGED <<s, first, queueVars, t, totalDistance, app, vis>>

Build ==
    /\ ~built
    /\ \E data \in Inputs : buildFromJSON(data)
    /\ UNCHANGED input

\* the same, with the value that was given kept beside the graph
BuildKeepingInput ==
    /\ ~built
    /\ \E data \in Inputs : buildFromJSON(data) /\ input' = data

SpecBuild == Init /\ [][BuildKeepingInput]_vars

\* a caller may start a search once the graph is built
CanCall == built /\ s.pc = "idle"

Running(algo, pc) == s.algo = algo /\ s.pc = pc

Walking(algo) == Running(algo, "walk") /\ Len(s.path) < MaxPath

dijkstra ==
    /\ CanCall
    /\ \E startNode \in Endpoints, endNode \in Endpoints :
           s' = dijkstraInit(startNode, endNode)
    /\ UNCHANGED <<nodes, adj, built, input, first, queueVars, t, totalDistance, app, vis>>

DijkstraLoop ==
    /\ Running("dijkstra", "loop")
    /\ s' = dijkstraLoop(s)
    /\ UNCHANGED <<nodes, adj, built, input, first, queueVars, t, totalDistance, app, vis>>

DijkstraWalk ==
    /\ Walking("dijkstra")
    /\ s' = dijkstraWalk(s)
    /\ UNCHANGED <<nodes, adj, built, input, first, queueVars, t, totalDistance, app, vis>>

aStar ==
    /\ CanCall
    /\ \E startNode \in Endpoints, endNode \in Endpoints :
           s' = aStarInit(startNode, endNode)
    /\ UNCHANGED <<nodes, adj, built, input, first, queueVars, t, totalDistance, app, vis>>

AStarLoop ==
    /\ Running("aStar", "loop")
    /\ s' = aStarLoop(s)
    /\ UNCHANGED <<nodes, adj, built, input, first, queueVars, t, totalDistance, app, vis>>

AStarWalk ==
    /\ Walking("aStar")
    /\ s' = aStarWalk(s)
    /\ UNCHANGED <<nodes, adj, built, input, first, queueVars, t, totalDistance, app, vis>>

greedyBestFirstSearch ==
    /\ CanCall
    /\ \E startNode \in Endpoints, endNode \in Endpoints :
           s' = greedyBestFirstSearchInit(startNode, endNode)
    /\ UNCHANGED <<nodes, adj, built, input, first, queueVars, t, totalDistance, app, vis>>

GreedyBestFirstSearchLoop ==
    /\ Running("gbfs", "loop")
    /\ s' = greedyBestFirstSearchLoop(s)
    /\ UNCHANGED <<nodes, adj, built, input, first, queueVars, t, totalDistance, app, vis>>

GreedyBestFirstSearchWalk ==
    /\ Walking("gbfs")
    /\ s' = greedyBestFirstSearchWalk(s)
    /\ UNCHANGED <<nodes, adj, built, input, first, queueVars, t, totalDistance, app, vis>>

breadthFirstSearch ==
    /\ CanCall
    /\ \E startNode \in Endpoints, endNode \in Endpoints :
           s' = breadthFirstSearchInit(startNode, endNode)
    /\ UNCHANGED <<nodes, adj, built, input, first, queueVars, t, totalDistance, app, vis>>

BreadthFirstSearchLoop ==
    /\ Running("bfs", "loop")
    /\ s' = breadthFirstSearchLoop(s)
    /\ UNCHANGED <<nodes, adj, built, input, first, queueVars, t, totalDistance, app, vis>>

BreadthFirstSearchWalk ==
    /\ Walking("bfs")
    /\ s' = breadthFirstSearchWalk(s)
    /\ UNCHANGED <<nodes, adj, built, input, first, queueVars, t, totalDistance, app, vis>>

depthFirstSearch ==
    /\ CanCall
    /\ \E startNode \in Endpoints, endNode \in Endpoints :
           s' = depthFirstSearchInit(startNode, endNode)
    /\ UNCHANGED <<nodes, adj, built, input, first, queueVars, t, totalDistance, app, vis>>

DepthFirstSearchLoop ==
    /\ Running("dfs", "loop")
    /\ s' = depthFirstSearchLoop(s)
    /\ UNCHANGED <<nodes, adj, built, input, first, queueVars, t, totalDistance, app, vis>>

DepthFirstSearchWalk ==
    /\ Walking("dfs")
    /\ s' = depthFirstSearchWalk(s)
    /\ UNCHANGED <<nodes, adj, built, input, first, queueVars, t, totalDistance, app, vis>>

Search ==
    \/ dijkstra \/ DijkstraLoop \/ DijkstraWalk
    \/ aStar \/ AStarLoop \/ AStarWalk
    \/ greedyBestFirstSearch \/ GreedyBestFirstSearchLoop \/ GreedyBestFirstSearchWalk
    \/ breadthFirstSearch \/ BreadthFirstSearchLoop \/ BreadthFirstSearchWalk
    \/ depthFirstSearch \/ DepthFirstSearchLoop \/ DepthFirstSearchWalk

Next == Build \/ Search

Spec == Init /\ [][Next]_vars

\* the locals of a new call of the search algo
InitOf(algo, startNode, endNode) ==
    CASE algo = "dijkstra" -> dijkstraInit(startNode, endNode)
      [] algo = "aStar" -> aStarInit(startNode, endNode)
      [] algo = "gbfs" -> greedyBestFirstSearchInit(startNode, endNode)
      [] algo = "bfs" -> breadthFirstSearchInit(startNode, endNode)
      [] algo = "dfs" -> depthFirstSearchInit(startNode, endNode)

\* the caller keeps what a call returned and makes the same call again, on
\* the same graph
Again ==
    /\ s.pc = "done"
    /\ first = <<>>
    /\ first' = <<[path |-> s.path, visitedInOrder |-> s.visitedInOrder]>>
    /\ s' = InitOf(s.algo, s.startNode, s.endNode)
    /\ UNCHANGED <<nodes, adj, built, input, queueVars, t, totalDistance, app, vis>>

NextTwice == Next \/ Again

SpecTwice == Init /\ [][NextTwice]_vars

----------------------------------------------------------------------------
(* aStar from A to D on the graphs of four nodes *)

BuildFour ==
    /\ ~built
    /\ \E data \in FourNodeInputs : buildFromJSON(data)
    /\ UNCHANGED input

aStarFromAToD ==
    /\ CanCall
    /\ s' = aStarInit(A, D)
    /\ UNCHANGED <<nodes, adj, built, input, first, queueVars, t, totalDistance, app, vis>>

NextAStar == BuildFour \/ aStarFromAToD \/ AStarLoop \/ AStarWalk

SpecAStar == Init /\ [][NextAStar]_vars

----------------------------------------------------------------------------
(* App.calculatePathDistance on the path a search returned *)

\* the loop of calculatePathDistance, from index i of path on
RECURSIVE SumOfEdgeWeights(_, _)
SumOfEdgeWeights(path, i) ==
    IF i >= Len(path) THEN 0
    ELSE getEdgeWeight(getNode(path[i]), getNode(path[i + 1])) + SumOfEdgeWeights(path, i + 1)

\* reading .id of a getNode result that is undefined ends the call with a
\* TypeError, for which Undefined stands here
calculatePathDistanceOf(path) ==
    IF \A i \in 1..Len(path) : hasNode(path[i]) THEN SumOfEdgeWeights(path, 1)
    ELSE Undefined

\* updateStatsPanel calls it for a result whose path is not empty
calculatePathDistance ==
    /\ s.pc = "done"
    /\ Len(s.path) > 0
    /\ totalDistance = Null
    /\ totalDistance' = calculatePathDistanceOf(s.path)
    /\ UNCHANGED <<searchVars, queueVars, t, app, vis>>

NextDistance == Next \/ calculatePathDistance

SpecDistance == Init /\ [][NextDistance]_vars

----------------------------------------------------------------------------
(* Two searches on one graph, their steps interleaved *)

Algos == {"dijkstra", "aStar", "gbfs", "bfs", "dfs"}

\* the next step of the search whose locals are r
StepOf(r) ==
    CASE r.algo = "dijkstra" -> IF r.pc = "loop" THEN dijkstraLoop(r) ELSE dijkstraWalk(r)
      [] r.algo = "aStar" -> IF r.pc = "loop" THEN aStarLoop(r) ELSE aStarWalk(r)
      [] r.algo = "gbfs" -> IF r.pc = "loop" THEN greedyBestFirstSearchLoop(r)
                            ELSE greedyBestFirstSearchWalk(r)
      [] r.algo = "bfs" -> IF r.pc = "loop" THEN breadthFirstSearchLoop(r)
                           ELSE breadthFirstSearchWalk(r)
      [] r.algo = "dfs" -> IF r.pc = "loop" THEN depthFirstSearchLoop(r)
                           ELSE depthFirstSearchWalk(r)

\* the record a search returns with when its steps are taken to the end
RECURSIVE RunOf(_)
RunOf(r) == IF r.pc \in {"loop", "walk"} THEN RunOf(StepOf(r)) ELSE r

BuildSquare ==
    /\ ~built
    /\ buildFromJSON(Square)
    /\ UNCHANGED input

OtherCall ==
    /\ built
    /\ t.pc = "idle"
    /\ \E algo \in Algos, startNode \in DOMAIN nodes, endNode \in DOMAIN nodes :
           t' = InitOf(algo, startNode, endNode)
    /\ UNCHANGED <<searchVars, queueVars, totalDistance, app, vis>>

OtherStep ==
    /\ t.pc \in {"loop", "walk"}
    /\ t' = StepOf(t)
    /\ UNCHANGED <<searchVars, queueVars, totalDistance, app, vis>>

NextShared == BuildSquare \/ Search \/ OtherCall \/ OtherStep

SpecShared == Init /\ [][NextShared]_vars

----------------------------------------------------------------------------
(* A PriorityQueue used directly: any sequence of enqueue and dequeue      *)
(* calls.  The element of the n-th enqueue call carries n, which tells the *)
(* entries of the queue apart.                                             *)

Elements == {1, 2}

Priorities == (0..MaxPriority) \cup {Infinity}

Enqueue ==
    /\ calls < MaxCalls
    /\ \E id \in Elements, priority \in Priorities :
           items' = enqueue(items, [id |-> id, n |-> calls + 1], priority)
    /\ calls' = calls + 1
    /\ was' = <<>>
    /\ out' = <<>>
    /\ UNCHANGED <<searchVars, t, totalDistance, app, vis>>

Dequeue ==
    /\ was' = items
    /\ out' = <<dequeue(items)>>
    /\ items' = dequeued(items)
    /\ UNCHANGED <<calls, searchVars, t, totalDistance, app, vis>>

NextQueue == Enqueue \/ Dequeue

SpecQueue == Init /\ [][NextQueue]_vars

----------------------------------------------------------------------------
(* The App: map clicks, the reset button, the algorithm selector and the   *)
(* speed buttons.  A node is held as its id.  A search called by a handler *)
(* runs to its end within the handler.                                     *)

Speeds == {0, 5, 50}

Times == 0..MaxTime

\* the values of the selector's options
AlgoValues == {algoOrder[i] : i \in 1..Len(algoOrder)}

\* the switch of runVisualization
AlgoOf(selectedAlgo) ==
    CASE selectedAlgo = "dijkstra" -> "dijkstra"
      [] selectedAlgo = "astar" -> "aStar"
      [] selectedAlgo = "gbfs" -> "gbfs"
      [] selectedAlgo = "bfs" -> "bfs"
      [] selectedAlgo = "dfs" -> "dfs"

\* Visualizer.clearLayers
clearLayers(a) == [a EXCEPT !.visualizer.result = Null]

\* Visualizer.animate
animate(a, result, speed) == [a EXCEPT !.visualizer = [result |-> result, speed |-> speed]]

\* time is what performance.now() measures when the search is run
runVisualizationOf(a, recalculate, time) ==
    IF a.startNode = Null \/ a.endNode = Null THEN a
    ELSE LET a1 == clearLayers(a)
             a2 == IF recalculate
                   THEN [a1 EXCEPT !.lastResults = <<>>, !.lastTimes = <<>>]
                   ELSE a1
             selectedAlgo == a2.selectedAlgo
         IN  IF selectedAlgo \in DOMAIN a2.lastResults /\ selectedAlgo \in DOMAIN a2.lastTimes
             THEN animate(a2, a2.lastResults[selectedAlgo], a2.currentSpeed)
             ELSE LET r == RunOf(InitOf(AlgoOf(selectedAlgo), a2.startNode, a2.endNode))
                      result == [path |-> r.path, visitedInOrder |-> r.visitedInOrder,
                                 prev |-> r.prev]
                  IN  IF r.pc = "error" THEN a2
                      ELSE animate([a2 EXCEPT !.lastResults = Put(@, selectedAlgo, result),
                                              !.lastTimes = Put(@, selectedAlgo, time)],
                                   result, a2.currentSpeed)

\* a faulty variant, kept for comparison: the caches outlive a reset
handleResetKeepingCaches(a) ==
    [clearLayers(a) EXCEPT !.startNode = Null, !.endNode = Null]

handleResetOf(a) ==
    [clearLayers(a) EXCEPT !.startNode = Null, !.endNode = Null,
                           !.lastResults = <<>>, !.lastTimes = <<>>]

handleMapClickOf(a, node, time) ==
    LET a1 == clearLayers(a)
    IN  IF a1.startNode = Null THEN [a1 EXCEPT !.startNode = node]
        ELSE IF a1.endNode = Null
             THEN runVisualizationOf([a1 EXCEPT !.endNode = node], TRUE, time)
             ELSE [handleResetOf(a1) EXCEPT !.startNode = node]

\* a click on the map, which MapManager turns into the nearest node
handleMapClick ==
    /\ built
    /\ \E node \in DOMAIN nodes, time \in Times : app' = handleMapClickOf(app, node, time)
    /\ UNCHANGED <<searchVars, queueVars, t, totalDistance, vis>>

handleReset ==
    /\ built
    /\ app' = handleResetOf(app)
    /\ UNCHANGED <<searchVars, queueVars, t, totalDistance, vis>>

\* the selector's change event
algoSelectorChange ==
    /\ built
    /\ \E value \in AlgoValues \ {app.selectedAlgo}, time \in Times :
           app' = runVisualizationOf([app EXCEPT !.selectedAlgo = value], FALSE, time)
    /\ UNCHANGED <<searchVars, queueVars, t, totalDistance, vis>>

\* a click on speedSlow, speedNormal or speedFast
speedClick ==
    /\ built
    /\ \E speed \in Speeds, time \in Times :
           app' = runVisualizationOf([app EXCEPT !.currentSpeed = speed], FALSE, time)
    /\ UNCHANGED <<searchVars, queueVars, t, totalDistance, vis>>

NextApp == BuildSquare \/ handleMapClick \/ handleReset \/ algoSelectorChange \/ speedClick

SpecApp == Init /\ [][NextApp]_vars

----------------------------------------------------------------------------
(* A Visualizer used directly: animate, setSpeed and clearLayers in any    *)
(* order, and between them the ticks of the intervals that are live.  A    *)
(* layer is the sequence of the lines drawn on it.                         *)

\* the results a search on the graph may hand to animate
AlgorithmResults ==
    {LET r == RunOf(InitOf(algo, startNode, endNode))
     IN  [path |-> r.path, visitedInOrder |-> r.visitedInOrder, prev |-> r.prev] :
         algo \in Algos, startNode \in DOMAIN nodes, endNode \in DOMAIN nodes}

\* window.clearInterval; an id that is not live, or null, clears nothing
clearInterval(v, id) == [v EXCEPT !.intervals = @ \ {id}]

clearLayersOf(v) ==
    LET v1 == IF v.animationTimer # Null
              THEN [clearInterval(v, v.animationTimer) EXCEPT !.animationTimer = Null]
              ELSE v
    IN  [v1 EXCEPT !.visitedLayer = <<>>, !.pathLayer = <<>>,
                   !.result = <<>>, !.animationIndex = 0]

startAnimationLoop(v) ==
    IF v.result = <<>> THEN v
    ELSE [v EXCEPT !.made = @ + 1, !.intervals = @ \cup {v.made + 1},
                   !.animationTimer = v.made + 1]

setSpeedOf(v, newSpeed) ==
    LET v1 == [v EXCEPT !.speed = newSpeed]
        v2 == IF v1.animationTimer # Null THEN clearInterval(v1, v1.animationTimer) ELSE v1
    IN  startAnimationLoop(v2)

animateOf(v, result, speed) ==
    setSpeedOf([clearLayersOf(v) EXCEPT !.result = <<result>>, !.animationIndex = 0], speed)

\* the polyline of the nodes of the path that the graph holds
drawFinalPath(v, pathNodeIds) ==
    [v EXCEPT !.pathLayer = Append(@, SelectSeq(pathNodeIds, hasNode))]

\* the for loop of the interval's callback, from its i-th round on
RECURSIVE drawBatch(_, _, _)
drawBatch(v, i, batchSize) ==
    IF ~(i < batchSize /\ v.animationIndex < Len(v.result[1].visitedInOrder)) THEN v
    ELSE LET nodeId == v.result[1].visitedInOrder[v.animationIndex + 1]
             parentId == Get(v.result[1].prev, nodeId)
             v1 == [v EXCEPT !.animationIndex = @ + 1]
         IN  drawBatch(IF parentId # Null /\ hasNode(nodeId) /\ hasNode(parentId)
                       THEN [v1 EXCEPT !.visitedLayer = Append(@, <<parentId, nodeId>>)]
                       ELSE v1,
                       i + 1, batchSize)

\* the callback startAnimationLoop hands to setInterval
intervalCallback(v) ==
    IF v.result = <<>> THEN clearInterval(v, v.animationTimer)
    ELSE IF v.animationIndex >= Len(v.result[1].visitedInOrder)
         THEN drawFinalPath([clearInterval(v, v.animationTimer) EXCEPT !.animationTimer = Null],
                            v.result[1].path)
         ELSE drawBatch(v, 0, IF v.speed = 0 THEN 100 ELSE 1)

Animate ==
    /\ built
    /\ vis.made < MaxIntervals
    /\ \E result \in AlgorithmResults, speed \in Speeds : vis' = animateOf(vis, result, speed)
    /\ UNCHANGED <<searchVars, queueVars, t, totalDistance, app>>

SetSpeed ==
    /\ built
    /\ vis.made < MaxIntervals
    /\ \E newSpeed \in Speeds : vis' = setSpeedOf(vis, newSpeed)
    /\ UNCHANGED <<searchVars, queueVars, t, totalDistance, app>>

ClearLayers ==
    /\ built
    /\ vis' = clearLayersOf(vis)
    /\ UNCHANGED <<searchVars, queueVars, t, totalDistance, app>>

\* an interval that is live fires
Tick ==
    /\ vis.intervals # {}
    /\ vis' = intervalCallback(vis)
    /\ UNCHANGED <<searchVars, queueVars, t, totalDistance, app>>

NextVisualizer == BuildSquare \/ Animate \/ SetSpeed \/ ClearLayers \/ Tick

SpecVisualizer == Init /\ [][NextVisualizer]_vars

----------------------------------------------------------------------------
(* What the graph holds, stated without the searches *)

\* the targets of the adjacency entries of u
Targets(u) == {getNeighbors(u)[i].target : i \in 1..Len(getNeighbors(u))}

\* the weights of the adjacency entries u -> v
StoredWeights(u, v) ==
    {getNeighbors(u)[i].weight : i \in {j \in 1..Len(getNeighbors(u)) : getNeighbors(u)[j].target = v}}

\* the ids reached from the ids of S along adjacency entries
RECURSIVE Closure(_)
Closure(S) ==
    LET T == S \cup UNION {Targets(u) : u \in S}
    IN  IF T = S THEN S ELSE Closure(T)

Reachable(u, v) == v \in Closure({u})

MinWeight(u, v) == Min(StoredWeights(u, v))

\* what an entry u -> v adds to a path: its weight, or one edge
Cost(u, v, weighted) == IF weighted THEN MinWeight(u, v) ELSE 1

\* least total cost over the walks of at most k entries, from the node
\* whose entry of d is 0 (f @@ <<>> is f, held as a table of its values)
RECURSIVE Rounds(_, _, _)
Rounds(d, k, weighted) ==
    IF k = 0 THEN d
    ELSE Rounds([v \in DOMAIN d |->
                    Min({d[v]} \cup {d[u] + Cost(u, v, weighted) :
                                        u \in {x \in DOMAIN d : v \in Targets(x)}})]
                @@ <<>>,
                k - 1, weighted)

LeastTotal(startNode, endNode, weighted) ==
    Rounds([v \in DOMAIN nodes |-> IF v = startNode THEN 0 ELSE Infinity],
           Cardinality(DOMAIN nodes), weighted)[endNode]

\* the least total weight, and the least number of edges, of a path
MinCost(startNode, endNode) == LeastTotal(startNode, endNode, TRUE)

MinHops(startNode, endNode) == LeastTotal(startNode, endNode, FALSE)

\* every consecutive pair of path is joined by an adjacency entry
IsWalk(path) == \A i \in 1..(Len(path) - 1) : path[i + 1] \in Targets(path[i])

RECURSIVE SumFrom(_, _)
SumFrom(path, i) ==
    IF i >= Len(path) THEN 0
    ELSE MinWeight(path[i], path[i + 1]) + SumFrom(path, i + 1)

\* the summed stored weight of a path whose pairs are joined by entries
PathCost(path) == SumFrom(path, 1)

Done(algo) == s.algo = algo /\ s.pc = "done"

ExistingEndpoints == hasNode(s.startNode) /\ hasNode(s.endNode)

----------------------------------------------------------------------------
(* C1: for existing start and end with end reachable, dijkstra returns a   *)
(* path from start to end along adjacency entries whose summed stored      *)
(* weight is the least total weight of any start-to-end path.              *)

DijkstraPathIsShortest ==
    (Done("dijkstra") /\ ExistingEndpoints /\ Reachable(s.startNode, s.endNode))
        => /\ s.path # <<>>
           /\ Head(s.path) = s.startNode
           /\ Last(s.path) = s.endNode
           /\ IsWalk(s.path)
           /\ PathCost(s.path) = MinCost(s.startNode, s.endNode)

\* dijkstra has returned a path of two edges although a direct, heavier
\* entry start -> end is stored
DijkstraTookDetour ==
    /\ Done("dijkstra")
    /\ Len(s.path) = 3
    /\ s.endNode \in Targets(s.startNode)
    /\ PathCost(s.path) < MinWeight(s.startNode, s.endNode)

----------------------------------------------------------------------------
(* C2: for existing start and end with end reachable, the path aStar       *)
(* returns has the same total weight as the path dijkstra returns.  As     *)
(* stated, for all coordinates and weights:                                *)

AStarCostEqualsDijkstra ==
    (Done("aStar") /\ ExistingEndpoints /\ Reachable(s.startNode, s.endNode))
        => /\ s.path # <<>>
           /\ IsWalk(s.path)
           /\ PathCost(s.path) = PathCost(dijkstraResult(s.startNode, s.endNode).path)

\* every stored weight is at least the great-circle distance of the two
\* nodes its entry joins
WeightsCoverDistance ==
    \A u \in DOMAIN adj : \A i \in 1..Len(adj[u]) :
        hasNode(adj[u][i].target)
            => adj[u][i].weight >= hScoreOf(u, getNode(adj[u][i].target))

(* C2, amended: the same, on the graphs in which every stored weight is at *)
(* least the great-circle distance of the two nodes its entry joins.       *)

AStarCostEqualsDijkstraOnRoads ==
    (Done("aStar") /\ ExistingEndpoints /\ Reachable(s.startNode, s.endNode)
       /\ WeightsCoverDistance)
        => /\ s.path # <<>>
           /\ IsWalk(s.path)
           /\ PathCost(s.path) = PathCost(dijkstraResult(s.startNode, s.endNode).path)

\* aStar has returned a path of two edges on such a graph, having visited
\* other nodes than dijkstra does
AStarVisitsDifferently ==
    /\ Done("aStar")
    /\ WeightsCoverDistance
    /\ Len(s.path) = 3
    /\ s.visitedInOrder # dijkstraResult(s.startNode, s.endNode).visitedInOrder

----------------------------------------------------------------------------
(* C3: for existing start and end with end reachable, breadthFirstSearch   *)
(* returns a path from start to end along adjacency entries with the least *)
(* number of edges of any start-to-end path, whatever the weights.         *)

BfsPathHasFewestEdges ==
    (Done("bfs") /\ ExistingEndpoints /\ Reachable(s.startNode, s.endNode))
        => /\ s.path # <<>>
           /\ Head(s.path) = s.startNode
           /\ Last(s.path) = s.endNode
           /\ IsWalk(s.path)
           /\ Len(s.path) - 1 = MinHops(s.startNode, s.endNode)

\* breadthFirstSearch has returned the direct edge although a path of more
\* edges weighs less
BfsTookHeavierEdge ==
    /\ Done("bfs")
    /\ ExistingEndpoints
    /\ Len(s.path) = 2
    /\ MinCost(s.startNode, s.endNode) < PathCost(s.path)

----------------------------------------------------------------------------
(* C4: after buildFromJSON on any input, adjacency is symmetric: whenever  *)
(* node a's neighbour list holds an entry to b with weight w, node b's     *)
(* neighbour list holds an entry to a with weight w.                       *)

AdjacencyIsSymmetric ==
    built => \A a \in DOMAIN adj : \A i \in 1..Len(adj[a]) :
                 adj[a][i].weight \in StoredWeights(adj[a][i].target, a)

----------------------------------------------------------------------------
(* C5: for each of the five searches and existing start # end, if no path  *)
(* joins start to end the call returns, and the returned path is empty.    *)

Called == s.algo # "none"

Returned == Called /\ s.pc = "done"

NoPathGivesEmptyPath ==
    (Called /\ ExistingEndpoints /\ s.startNode # s.endNode
       /\ ~Reachable(s.startNode, s.endNode))
        => /\ s.pc # "error"
           /\ s.pc = "walk" => s.current # Undefined
           /\ s.pc = "done" => s.path = <<>>

\* greedyBestFirstSearch has returned from a search that visited two nodes
\* or more and did not reach end
GbfsGaveUp ==
    /\ Done("gbfs")
    /\ ExistingEndpoints
    /\ ~Reachable(s.startNode, s.endNode)
    /\ Len(s.visitedInOrder) >= 2
    /\ s.path = <<>>

----------------------------------------------------------------------------
(* C6: for each of the five searches, when start = end is a node of the    *)
(* graph the returned path is <<start>> and visitedInOrder holds start.    *)

InSeq(x, q) == \E i \in 1..Len(q) : q[i] = x

StartEqualsEndGivesSingleton ==
    (Returned /\ hasNode(s.startNode) /\ s.startNode = s.endNode)
        => /\ s.path = <<s.startNode>>
           /\ InSeq(s.startNode, s.visitedInOrder)

----------------------------------------------------------------------------
(* C7: for each of the five searches, a call whose start or end is not a   *)
(* node of the graph ends with an empty path or with an error, and does    *)
(* not loop: the backward walk never goes on from undefined, from where    *)
(* while (current !== null) cannot end.                                    *)

MissingEndpointFailsFast ==
    (Called /\ ~ExistingEndpoints)
        => /\ s.pc = "done" => s.path = <<>>
           /\ s.pc = "walk" => s.current # Undefined

----------------------------------------------------------------------------
(* C8: on the square A(0,0) B(0,1) C(1,1) D(1,0) with A-B:1, B-C:1, C-D:1, *)
(* A-D:5, dijkstra(A, D) returns <<A, B, C, D>> of cost 3 and              *)
(* breadthFirstSearch(A, D) returns <<A, D>>.                              *)

OnSquare == nodes = BuiltNodes(Square) /\ adj = BuiltAdj(Square)

SquareScenario ==
    (OnSquare /\ Returned /\ s.startNode = A /\ s.endNode = D)
        => /\ s.algo = "dijkstra" =>
                 s.path = <<A, B, C, D>> /\ PathCost(s.path) = 3 /\ s.distances[D] = 3
           /\ s.algo = "bfs" => s.path = <<A, D>>

\* dijkstra(A, D) has returned on the square, having relaxed D twice
SquareDijkstraReturned ==
    /\ OnSquare
    /\ Done("dijkstra")
    /\ s.startNode = A
    /\ s.endNode = D
    /\ Len(s.path) = 4

----------------------------------------------------------------------------
(* C9: for each of the five searches, visitedInOrder holds only ids        *)
(* reached from start along adjacency entries: a node with no edges, other *)
(* than start, is never in visitedInOrder, and a search that ends at such  *)
(* a node returns the empty path.                                          *)

Isolated(e) == hasNode(e) /\ adj[e] = <<>>

----------------------------------------------------------------------------
(* C10: the same search called twice on the same graph with the same start *)
(* and end returns the same path and the same visitedInOrder, for each of  *)
(* the five searches.                                                      *)

----------------------------------------------------------------------------
(* C11: after any sequence of enqueue and dequeue calls with numbers as    *)
(* priorities, the entries of the queue are in ascending priority order,   *)
(* and of two entries of equal priority the one enqueued earlier is ahead. *)

AscendingAndStable ==
    \A i \in 1..Len(items) : \A j \in (i + 1)..Len(items) :
        /\ items[i].priority <= items[j].priority
        /\ items[i].priority = items[j].priority => items[i].element.n < items[j].element.n

\* the queue holds two entries of equal priority ahead of an entry that was
\* enqueued before both, after a dequeue call
QueueHoldsTies ==
    /\ out # <<>>
    /\ Len(items) >= 3
    /\ items[1].priority = items[2].priority
    /\ items[3].element.n < items[1].element.n

----------------------------------------------------------------------------
(* C12: dequeue on a non-empty queue returns the entry of smallest         *)
(* priority, the earliest enqueued among ties, and removes that entry and  *)
(* no other, entries of the same element with other priorities included;   *)
(* on an empty queue it returns undefined and the queue stays empty;       *)
(* isEmpty is true exactly when no entry remains.                          *)

\* q without its entry of the n-th enqueue call
Without(q, n) == SelectSeq(q, LAMBDA e : e.element.n # n)

DequeueTakesSmallest ==
    /\ isEmpty(items) <=> items = <<>>
    /\ out # <<>> =>
           IF was = <<>> THEN out[1] = Undefined /\ items = <<>>
           ELSE /\ \E i \in 1..Len(was) : was[i] = out[1]
                /\ \A i \in 1..Len(was) :
                       \/ out[1].priority < was[i].priority
                       \/ /\ out[1].priority = was[i].priority
                          /\ out[1].element.n <= was[i].element.n
                /\ items = Without(was, out[1].element.n)
                /\ Len(items) = Len(was) - 1

\* dequeue has returned an entry of an element of which the queue still
\* holds an entry of another priority, enqueued earlier
DequeueLeftDuplicate ==
    /\ out # <<>>
    /\ was # <<>>
    /\ \E i \in 1..Len(items) :
           /\ items[i].element.id = out[1].element.id
           /\ items[i].priority # out[1].priority
           /\ items[i].element.n < out[1].element.n

----------------------------------------------------------------------------
(* C13: buildFromJSON, given an edge that names an id that is not in the   *)
(* node set, fails or skips that edge: the graph it leaves never holds one *)
(* direction of such an edge, that is, an entry whose target is no node.   *)

NoHalfStoredEdge ==
    built => \A a \in DOMAIN adj : \A i \in 1..Len(adj[a]) : hasNode(adj[a][i].target)

----------------------------------------------------------------------------
(* C14: for each of the five searches and existing start and end, a        *)
(* returned path that is not empty begins with start, ends with end, and   *)
(* has every consecutive pair joined by an adjacency entry; and the        *)
(* returned path is not empty whenever end is reached from start.          *)

PathJoinsStartToEnd ==
    (Returned /\ ExistingEndpoints)
        => /\ s.path # <<>> =>
                 /\ Head(s.path) = s.startNode
                 /\ Last(s.path) = s.endNode
                 /\ IsWalk(s.path)
           /\ Reachable(s.startNode, s.endNode) => s.path # <<>>

----------------------------------------------------------------------------
(* C15: in dijkstra and aStar visitedInOrder holds no id twice: a stale    *)
(* queue entry of a node that was visited before does not put the node in  *)
(* visitedInOrder again.                                                   *)

NoDuplicates(q) == \A i \in 1..Len(q) : \A j \in 1..Len(q) : q[i] = q[j] => i = j

VisitedOnce ==
    (s.algo \in {"dijkstra", "aStar"} /\ ExistingEndpoints) => NoDuplicates(s.visitedInOrder)

----------------------------------------------------------------------------
(* C16: no step of a search changes the node map or the adjacency lists,   *)
(* and when the steps of two searches on one graph are interleaved each    *)
(* returns the path, visitedInOrder and prev it returns when run alone.    *)

AgreesWithAlone(r) ==
    (r.pc = "done" /\ hasNode(r.startNode) /\ hasNode(r.endNode))
        => LET alone == RunOf(InitOf(r.algo, r.startNode, r.endNode))
           IN  /\ r.path = alone.path
               /\ r.visitedInOrder = alone.visitedInOrder
               /\ r.prev = alone.prev

GraphLeftAlone == built => (nodes' = nodes /\ adj' = adj)

----------------------------------------------------------------------------
(* C17: for every id of the node set getNeighbors returns a sequence,      *)
(* empty when the node has no edges, whose order is the construction       *)
(* order: each edge of the input edge list, in the order of the list, adds *)
(* its forward entry to the list of its source and its mirror entry to the *)
(* list of its target.                                                     *)

\* the entries the edges from the i-th on add to the list of node id
RECURSIVE EntriesOf(_, _, _)
EntriesOf(edges, id, i) ==
    IF i > Len(edges) THEN <<>>
    ELSE (IF edges[i].source = id THEN <<edges[i]>> ELSE <<>>)
         \o (IF edges[i].target = id
             THEN <<[source |-> id, target |-> edges[i].source, weight |-> edges[i].weight]>>
             ELSE <<>>)
         \o EntriesOf(edges, id, i + 1)

NeighborsInConstructionOrder ==
    built => \A id \in DOMAIN input.nodes :
                 /\ id \in DOMAIN adj
                 /\ getNeighbors(id) = EntriesOf(input.edges, id, 1)

\* a node has a mirror entry, then a forward entry, then a mirror entry,
\* and another node has no entry
NeighborsMixed ==
    /\ built
    /\ \E id \in DOMAIN adj :
           /\ Len(adj[id]) = 3
           /\ adj[id][1] # input.edges[1]
           /\ adj[id][2] = input.edges[2]
           /\ adj[id][3] # input.edges[3]
    /\ \E id \in DOMAIN adj : adj[id] = <<>>

----------------------------------------------------------------------------
(* C18: getEdgeWeight(a, b) returns the stored weight of an entry a -> b   *)
(* whenever a has one and the straight-line distance only when a has none; *)
(* and no search reads a weight through that fallback: whenever a step of  *)
(* dijkstra or aStar changes the distance of a node, the new distance is   *)
(* the distance of the node just dequeued plus the stored weight of an     *)
(* entry from it to that node.  (The other three read no weight.)          *)

EdgeWeightIsStored ==
    \A a \in DOMAIN nodes : \A b \in DOMAIN nodes :
        IF StoredWeights(a, b) # {}
        THEN getEdgeWeight(getNode(a), getNode(b)) \in StoredWeights(a, b)
        ELSE getEdgeWeight(getNode(a), getNode(b))
                 = haversineDistance(nodes[a].lat, nodes[a].lon, nodes[b].lat, nodes[b].lon)

\* the map of distances of a weighted search
DistancesOf(r) == IF r.algo = "dijkstra" THEN r.distances ELSE r.gScore

RelaxedByStoredWeight ==
    (s.algo \in {"dijkstra", "aStar"} /\ s.pc = "loop" /\ s'.algo = s.algo)
        => LET currentNode == Last(s'.visitedInOrder)
           IN  \A v \in DOMAIN DistancesOf(s') :
                   Get(DistancesOf(s), v) # DistancesOf(s')[v]
                       => \E w \in StoredWeights(currentNode, v) :
                              DistancesOf(s')[v] = DistancesOf(s)[currentNode] + w

OnlyStoredWeightsRead == []EdgeWeightIsStored /\ [][RelaxedByStoredWeight]_vars

\* calculatePathDistance has summed the stored weights of a path of two
\* edges that dijkstra returned, and they are not the straight-line
\* distances of its nodes
StoredWeightsSummed ==
    /\ Done("dijkstra")
    /\ Len(s.path) = 3
    /\ totalDistance = s.distances[s.endNode]
    /\ totalDistance # hScoreOf(s.path[1], getNode(s.path[2]))
                           + hScoreOf(s.path[2], getNode(s.path[3]))

----------------------------------------------------------------------------
(* C19: when the heuristic is admissible (for every node its straight-line *)
(* distance to end is at most the least total weight of a path from it to  *)
(* end) and the weights are not negative, aStar returns, for reachable     *)
(* end, a path from start to end of least total weight, although it stops  *)
(* at the first dequeue of end and enqueues again nodes it has dequeued.   *)

\* least total weight over the walks of at most k entries to the node
\* whose entry of d is 0 (f @@ <<>> is f, held as a table of its values)
RECURSIVE RoundsTo(_, _)
RoundsTo(d, k) ==
    IF k = 0 THEN d
    ELSE RoundsTo([u \in DOMAIN d |->
                      Min({d[u]} \cup {MinWeight(u, v) + d[v] : v \in Targets(u) \cap DOMAIN d})]
                  @@ <<>>,
                  k - 1)

\* the least total weight of a path to endNode, from every node
MinCostTo(endNode) ==
    RoundsTo([v \in DOMAIN nodes |-> IF v = endNode THEN 0 ELSE Infinity],
             Cardinality(DOMAIN nodes))

Admissible ==
    LET least == MinCostTo(s.endNode)
    IN  \A n \in DOMAIN nodes : hScoreOf(n, getNode(s.endNode)) <= least[n]

AStarIsOptimalWhenAdmissible ==
    (Done("aStar") /\ ExistingEndpoints /\ Reachable(s.startNode, s.endNode) /\ Admissible)
        => /\ s.path # <<>>
           /\ Head(s.path) = s.startNode
           /\ Last(s.path) = s.endNode
           /\ IsWalk(s.path)
           /\ PathCost(s.path) = MinCost(s.startNode, s.endNode)

\* aStar has returned a path of three edges under an admissible heuristic,
\* having dequeued a node twice: the second time with a smaller gScore
AStarDequeuedTwice ==
    /\ Done("aStar")
    /\ Len(s.path) = 4
    /\ ~NoDuplicates(s.visitedInOrder)
    /\ ~WeightsCoverDistance
    /\ Admissible

----------------------------------------------------------------------------
(* C20: in each of the five searches the loop stops at the step that       *)
(* dequeues (pops) end: end is then the last element of visitedInOrder,    *)
(* and once the loop has stopped no node is dequeued and no entry of prev  *)
(* or of the distances changes, even if the queue or stack holds entries.  *)

EndIsVisitedLast ==
    (Called /\ InSeq(s.endNode, s.visitedInOrder))
        => /\ s.pc # "loop"
           /\ Last(s.visitedInOrder) = s.endNode

NothingChangesAfterLoop ==
    (Called /\ s.pc \in {"walk", "done"})
        => /\ s'.visitedInOrder = s.visitedInOrder
           /\ s'.prev = s.prev
           /\ s'.distances = s.distances
           /\ s'.gScore = s.gScore
           /\ s'.pq = s.pq
           /\ s'.queue = s.queue
           /\ s'.stack = s.stack

LoopStopsAtEnd == []EndIsVisitedLast /\ [][NothingChangesAfterLoop]_vars

\* dijkstra has returned a path of two edges or more and its queue still
\* holds an entry
DijkstraLeftEntries ==
    /\ Done("dijkstra")
    /\ Len(s.path) >= 3
    /\ Last(s.visitedInOrder) = s.endNode
    /\ s.pq # <<>>

----------------------------------------------------------------------------
(* C21: in greedyBestFirstSearch prev[start] is start from before the loop *)
(* on; a node is enqueued exactly when its prev entry is none, so that     *)
(* each node is enqueued at most once; and a prev entry that is not none   *)
(* never changes.                                                          *)

\* the elements of the entries of a queue
ElementsOf(its) == [i \in 1..Len(its) |-> its[i].element]

\* the nodes enqueued so far: those dequeued, then those still queued
EnqueuedSoFar(r) == r.visitedInOrder \o ElementsOf(r.pq)

GbfsMarksOnce ==
    (s.algo = "gbfs" /\ s.pc \in {"loop", "walk", "done"} /\ ExistingEndpoints)
        => /\ s.prev[s.startNode] = s.startNode
           /\ NoDuplicates(EnqueuedSoFar(s))
           /\ \A n \in DOMAIN s.prev : s.prev[n] # Null <=> InSeq(n, EnqueuedSoFar(s))

GbfsPrevIsFixed ==
    (s.algo = "gbfs" /\ s'.algo = "gbfs")
        => \A n \in DOMAIN s.prev : s.prev[n] # Null => s'.prev[n] = s.prev[n]

GbfsDiscoversOnce == []GbfsMarksOnce /\ [][GbfsPrevIsFixed]_vars

\* greedyBestFirstSearch has returned; a node it expanded has an entry to
\* a node that was discovered from another node, and kept that prev
GbfsSawNodeAgain ==
    /\ Done("gbfs")
    /\ ExistingEndpoints
    /\ \E u \in DOMAIN s.prev : \E n \in Targets(u) \cap DOMAIN s.prev :
           /\ InSeq(u, s.visitedInOrder)
           /\ u # s.endNode
           /\ n \notin {u, s.startNode}
           /\ s.prev[n] \notin {u, Null}

----------------------------------------------------------------------------
(* C22: the marker depthFirstSearch stores in prev[start] is no node id of *)
(* the graph, whatever its node ids are, so that the path of a search that *)
(* found end is walked back all the way to start.                          *)

DfsMarkerIsNoNode ==
    (Done("dfs") /\ ExistingEndpoints /\ s.found)
        => /\ ~hasNode(s.prev[s.startNode])
           /\ s.path # <<>>
           /\ Head(s.path) = s.startNode

----------------------------------------------------------------------------
(* C23: depthFirstSearch explores the neighbours of a node in the stored   *)
(* order of its adjacency list.  As stated: of two nodes discovered from   *)
(* the same node, the one stored earlier in that node's list is popped     *)
(* (appended to visitedInOrder) before the one stored later.               *)

\* the index of the first entry of u's list whose target is n
FirstEntry(u, n) ==
    Min({i \in 1..Len(getNeighbors(u)) : getNeighbors(u)[i].target = n})

\* the index of x in q
IndexIn(q, x) == Min({i \in 1..Len(q) : q[i] = x})

\* depthFirstSearch discovered a and then b from u
DiscoveredInTurn(u, a, b) ==
    /\ a # b
    /\ s.startNode \notin {a, b}
    /\ {a, b} \subseteq Targets(u) \cap DOMAIN s.prev
    /\ s.prev[a] = u
    /\ s.prev[b] = u
    /\ FirstEntry(u, a) < FirstEntry(u, b)

DfsPopsEarlierFirst ==
    (s.algo = "dfs" /\ ExistingEndpoints)
        => \A u \in DOMAIN adj : \A a \in Targets(u) : \A b \in Targets(u) :
               (DiscoveredInTurn(u, a, b) /\ InSeq(b, s.visitedInOrder))
                   => /\ InSeq(a, s.visitedInOrder)
                      /\ IndexIn(s.visitedInOrder, a) < IndexIn(s.visitedInOrder, b)

(* C23, amended: the stack turns the stored order round.  Of two nodes     *)
(* discovered from the same node, the one stored later in that node's list *)
(* is popped before the one stored earlier.                                *)

DfsPopsLaterFirst ==
    (s.algo = "dfs" /\ ExistingEndpoints)
        => \A u \in DOMAIN adj : \A a \in Targets(u) : \A b \in Targets(u) :
               (DiscoveredInTurn(u, a, b) /\ InSeq(a, s.visitedInOrder))
                   => /\ InSeq(b, s.visitedInOrder)
                      /\ IndexIn(s.visitedInOrder, b) < IndexIn(s.visitedInOrder, a)

\* depthFirstSearch has popped both of two nodes it discovered from start
DfsPoppedBoth ==
    /\ s.algo = "dfs"
    /\ ExistingEndpoints
    /\ \E a \in DOMAIN s.prev : \E b \in DOMAIN s.prev :
           /\ s.startNode \in DOMAIN adj
           /\ DiscoveredInTurn(s.startNode, a, b)
           /\ InSeq(a, s.visitedInOrder)
           /\ InSeq(b, s.visitedInOrder)

----------------------------------------------------------------------------
(* C24: in dijkstra with weights that are not negative, a distance only    *)
(* ever decreases, prev[start] stays none, the distance and prev of a node *)
(* that has been dequeued never change again, and dequeuing a stale entry  *)
(* of such a node changes no distance and no prev.                         *)

DijkstraStep == s.algo = "dijkstra" /\ s'.algo = "dijkstra" /\ s.pc = "loop"

DijkstraSettles ==
    DijkstraStep
        => /\ \A n \in DOMAIN s.distances : s'.distances[n] <= s.distances[n]
           /\ \A n \in DOMAIN s.distances :
                  InSeq(n, s.visitedInOrder)
                      => s'.distances[n] = s.distances[n] /\ Get(s'.prev, n) = Get(s.prev, n)
           /\ InSeq(Head(s.pq).element, s.visitedInOrder)
                  => s'.distances = s.distances /\ s'.prev = s.prev

PrevOfStartIsNone ==
    (s.algo = "dijkstra" /\ hasNode(s.startNode)) => s.prev[s.startNode] = Null

DijkstraDistancesSettle == []PrevOfStartIsNone /\ [][DijkstraSettles]_vars

\* dijkstra has returned a path after it dequeued a stale entry of a node
\* it had dequeued before
DijkstraDequeuedStale ==
    /\ Done("dijkstra")
    /\ s.path # <<>>
    /\ ~NoDuplicates(s.visitedInOrder)

----------------------------------------------------------------------------
(* C25: in breadthFirstSearch, depthFirstSearch and greedyBestFirstSearch  *)
(* every node is added to the queue or stack at most once, so that         *)
(* visitedInOrder holds no id twice and is never longer than the number of *)
(* ids reached from start.                                                 *)

\* the nodes added so far: those taken, then those still waiting
AddedSoFar(r) ==
    r.visitedInOrder
        \o (CASE r.algo = "bfs" -> r.queue
              [] r.algo = "dfs" -> r.stack
              [] OTHER -> ElementsOf(r.pq))

----------------------------------------------------------------------------
(* C26: when all nodes have the same coordinates, so that the heuristic is *)
(* zero everywhere, aStar and dijkstra run in step on the same graph,      *)
(* start and end: after every loop iteration the queues, the gScore and    *)
(* distance maps, prev and visitedInOrder are equal, and so are the        *)
(* returned results.                                                       *)

SameCoordinates ==
    \A n \in DOMAIN nodes : \A o \in DOMAIN nodes :
        nodes[n].lat = nodes[o].lat /\ nodes[n].lon = nodes[o].lon

\* the locals of dijkstra after k iterations of its loop, or fewer if the
\* loop stops before
RECURSIVE dijkstraAfter(_, _)
dijkstraAfter(r, k) ==
    IF k = 0 \/ r.pc # "loop" THEN r ELSE dijkstraAfter(dijkstraLoop(r), k - 1)

AStarInStepWithDijkstra ==
    (s.algo = "aStar" /\ s.pc \in {"loop", "walk", "done"} /\ ExistingEndpoints
       /\ SameCoordinates)
        => LET d == dijkstraAfter(dijkstraInit(s.startNode, s.endNode), Len(s.visitedInOrder))
           IN  /\ d.visitedInOrder = s.visitedInOrder
               /\ d.pq = s.pq
               /\ d.distances = s.gScore
               /\ d.prev = s.prev
               /\ (d.pc = "loop") <=> (s.pc = "loop")
               /\ s.pc = "done" => dijkstraRun(d).path = s.path

\* aStar has returned a path of two edges on a graph whose nodes are all
\* at one place, having dequeued three entries or more
AStarRanWithoutHeuristic ==
    /\ Done("aStar")
    /\ ExistingEndpoints
    /\ SameCoordinates
    /\ Len(s.path) = 3
    /\ Len(s.visitedInOrder) >= 3

----------------------------------------------------------------------------
(* C27: at every point of every search, the prev entry of a node other     *)
(* than start is none or a node that is already in visitedInOrder and has  *)
(* a stored adjacency entry to that node; a node that was never added to   *)
(* the queue or stack has prev none; and every node in visitedInOrder      *)
(* other than start has such a predecessor.  (The entry of start holds the *)
(* start marker of the search.)                                            *)

\* p is a predecessor of n: visited before, with a stored entry p -> n
IsPredecessor(p, n) == InSeq(p, s.visitedInOrder) /\ n \in Targets(p)

PrevIsSearchTree ==
    (Called /\ s.pc \in {"loop", "walk", "done"})
        => /\ \A n \in DOMAIN s.prev \ {s.startNode} :
                  /\ s.prev[n] # Null => IsPredecessor(s.prev[n], n)
                  /\ ~InSeq(n, AddedSoFar(s)) => s.prev[n] = Null
           /\ \A i \in 1..Len(s.visitedInOrder) :
                  LET n == s.visitedInOrder[i]
                  IN  n # s.startNode
                          => Get(s.prev, n) # Null /\ IsPredecessor(Get(s.prev, n), n)

\* a search has returned having visited two nodes or more, all of them
\* nodes of the graph, the last discovered from the one before it, while
\* another node was never discovered
SearchTreeWithUndiscovered ==
    /\ Returned
    /\ ExistingEndpoints
    /\ Len(s.visitedInOrder) >= 2
    /\ \A i \in 1..Len(s.visitedInOrder) : hasNode(s.visitedInOrder[i])
    /\ s.prev[Last(s.visitedInOrder)] = s.visitedInOrder[Len(s.visitedInOrder) - 1]
    /\ \E n \in DOMAIN nodes : n # s.startNode /\ s.prev[n] = Null

----------------------------------------------------------------------------
(* C28: on a graph with non-negative weights and existing start and end,   *)
(* each of the five searches terminates: a call that has started           *)
(* eventually returns (or fails), the path being walked back never holds a *)
(* node twice (the prev chain that is walked has no cycle), and the loop   *)
(* and the walk never stand still before the call has ended.               *)

\* one iteration of the loop or of the backward walk of the running call
SearchStep ==
    \/ DijkstraLoop \/ DijkstraWalk
    \/ AStarLoop \/ AStarWalk
    \/ GreedyBestFirstSearchLoop \/ GreedyBestFirstSearchWalk
    \/ BreadthFirstSearchLoop \/ BreadthFirstSearchWalk
    \/ DepthFirstSearchLoop \/ DepthFirstSearchWalk

\* the graph is built from edges of any kind: to the node itself, to an
\* id that is no node, parallel to another, of weight 0
BuildOther ==
    /\ ~built
    /\ \E data \in OtherInputs : buildFromJSON(data)
    /\ UNCHANGED input

NextFair == BuildOther \/ Search

\* a call runs to its end without being suspended
SpecFair == Init /\ [][NextFair]_vars /\ WF_vars(SearchStep)

NonNegativeWeights ==
    \A u \in DOMAIN adj : \A i \in 1..Len(adj[u]) : adj[u][i].weight >= 0

Started == Called /\ ExistingEndpoints /\ NonNegativeWeights

WalkHasNoCycle ==
    (Started /\ s.pc \in {"walk", "done"})
        => /\ NoDuplicates(s.path)
           /\ Len(s.path) <= Cardinality(DOMAIN s.prev)

SearchTerminates ==
    /\ []WalkHasNoCycle
    /\ Started ~> (s.pc \in {"done", "error"})

\* a search between existing nodes has walked back a path of three nodes
\* and returned it, on a graph in which start lies on a cycle of weight 0
SearchEndedOnCycle ==
    /\ Returned
    /\ ExistingEndpoints
    /\ Len(s.path) = 3
    /\ \E i \in 1..Len(adj[s.startNode]) :
           adj[s.startNode][i].weight = 0 /\ adj[s.startNode][i].target # s.startNode

----------------------------------------------------------------------------
(* C30: for every path dijkstra returns, the distance that                 *)
(* App.calculatePathDistance reports for it equals the distance dijkstra   *)
(* computed for end, also on graphs that hold several parallel edges of    *)
(* different weight between the same two nodes.                            *)

ReportedDistanceIsDijkstras ==
    (Done("dijkstra") /\ ExistingEndpoints /\ s.path # <<>> /\ totalDistance # Null)
        => totalDistance = s.distances[s.endNode]

----------------------------------------------------------------------------
(* C29: in the App, after any sequence of map clicks, reset clicks,        *)
(* selector changes and speed clicks, every entry of lastResults is the    *)
(* result of its algorithm for the selected start and end, the caches are  *)
(* empty whenever start or end is unset, and a selector change or speed    *)
(* click leaves every entry that is cached, result and time, as it is.     *)

\* what the algorithm of a selector value returns for start and end
ResultOf(value, startNode, endNode) ==
    LET r == RunOf(InitOf(AlgoOf(value), startNode, endNode))
    IN  [path |-> r.path, visitedInOrder |-> r.visitedInOrder, prev |-> r.prev]

CacheIsForSelection ==
    /\ DOMAIN app.lastTimes = DOMAIN app.lastResults
    /\ (app.startNode = Null \/ app.endNode = Null)
           => app.lastResults = <<>> /\ app.lastTimes = <<>>
    /\ \A value \in DOMAIN app.lastResults :
           app.lastResults[value] = ResultOf(value, app.startNode, app.endNode)

\* with start and end set, a step that leaves both is a selector change or
\* a speed click: a map click or a reset unsets end
CachedEntriesKept ==
    (app.startNode # Null /\ app.endNode # Null
       /\ app'.startNode = app.startNode /\ app'.endNode = app.endNode)
        => \A value \in DOMAIN app.lastResults :
               /\ value \in DOMAIN app'.lastResults
               /\ app'.lastResults[value] = app.lastResults[value]
               /\ app'.lastTimes[value] = app.lastTimes[value]

CacheFollowsSelection == []CacheIsForSelection /\ [][CachedEntriesKept]_vars

\* a second selection is shown at speed Slow from a cache that holds the
\* results of three algorithms, each a path, measured at different times
CacheHoldsThree ==
    /\ app.startNode # Null
    /\ app.endNode # Null
    /\ app.currentSpeed = 50
    /\ Cardinality(DOMAIN app.lastResults) = 3
    /\ \A value \in DOMAIN app.lastResults : app.lastResults[value].path # <<>>
    /\ \E v \in DOMAIN app.lastTimes : \E w \in DOMAIN app.lastTimes :
           app.lastTimes[v] # app.lastTimes[w]
    /\ app.visualizer.result = app.lastResults[app.selectedAlgo]

----------------------------------------------------------------------------
(* C31: in the Visualizer, under any interleaving of animate, setSpeed,    *)
(* clearLayers and ticks, at most one interval is live at a time; the      *)
(* final path of a result is drawn at most once, and only after every      *)
(* element of the result's visitedInOrder has been processed; and after    *)
(* clearLayers no tick draws anything until the next animate.              *)

OneIntervalLive == Cardinality(vis.intervals) <= 1

FinalPathDrawnOnce == Len(vis.pathLayer) <= 1

FinalPathDrawnLast ==
    vis.pathLayer # <<>>
        => vis.result # <<>> /\ vis.animationIndex >= Len(vis.result[1].visitedInOrder)

\* with no result loaded the layers are empty and no interval is live
NothingDrawnAfterClear ==
    vis.result = <<>>
        => vis.intervals = {} /\ vis.visitedLayer = <<>> /\ vis.pathLayer = <<>>

VisualizerIsOrderly ==
    OneIntervalLive /\ FinalPathDrawnOnce /\ FinalPathDrawnLast /\ NothingDrawnAfterClear

====
